---- MODULE Spec2Model ----
(***************************************************************************)
(* PlacementPanic: the answer store (server/answer-service.ts), the answer *)
(* evaluator and the three answer endpoints of server/routes.ts.           *)
(*                                                                         *)
(* A JavaScript object is a function from its keys to their values; a key  *)
(* that is not in the DOMAIN is an absent (undefined) property.  A string  *)
(* the evaluator inspects is a sequence of one-character strings.          *)
(***************************************************************************)
EXTENDS Integers, Sequences, FiniteSets, TLC

\* ---------------------------------------------------------------- bounds
MaxStore == 2        \* records created by direct calls of the store in one run
MaxSubs == 1         \* submissions the submit handler accepts in one run
MaxTime == 1         \* ticks of the wall clock in one run
MaxRoutes == 1       \* registrations of the answer routes in one run
MaxWords == 101      \* words of the longest answer given to the evaluator

\* ------------------------------------------------------- string helpers
IsWs(c) == c \in {" ", "\n", "\t"}

\* String.prototype.toLowerCase, on the letters the model uses
LowerChar(c) ==
  CASE c = "A" -> "a" [] c = "P" -> "p" [] c = "I" -> "i" [] c = "W" -> "w"
    [] c = "E" -> "e" [] OTHER -> c

toLowerCase(s) == [i \in 1..Len(s) |-> LowerChar(s[i])]

\* String.prototype.includes
includes(s, pat) ==
  \E i \in 0..(Len(s) - Len(pat)) :
     \A j \in 1..Len(pat) : s[i + j] = pat[j]

\* String.prototype.split(/\s+/): the pieces between the maximal whitespace
\* runs, in order.  The pieces are the maximal runs of other characters, with
\* an empty piece in front when s starts with whitespace and one at the end
\* when s ends with whitespace; the empty string gives one empty piece.
splitWs(s) ==
  LET n == Len(s)
      positions == [i \in 1..n |-> i]
      starts == SelectSeq(positions,
                  LAMBDA i : ~IsWs(s[i]) /\ (i = 1 \/ IsWs(s[i - 1])))
      ends == SelectSeq(positions,
                LAMBDA i : ~IsWs(s[i]) /\ (i = n \/ IsWs(s[i + 1])))
      words == [k \in 1..Len(starts) |-> SubSeq(s, starts[k], ends[k])]
      lead == IF n > 0 /\ IsWs(s[1]) THEN << <<>> >> ELSE <<>>
      trail == IF n > 0 /\ IsWs(s[n]) THEN << <<>> >> ELSE <<>>
  IN  IF n = 0 THEN << <<>> >> ELSE lead \o words \o trail

Min(a, b) == IF a < b THEN a ELSE b
Max(a, b) == IF a > b THEN a ELSE b

\* ------------------------------------------------------------ evaluator
technicalKeywords ==
  <<
       <<"a","l","g","o","r","i","t","h","m">>,
       <<"t","i","m","e"," ","c","o","m","p","l","e","x","i","t","y">>,
       <<"s","p","a","c","e"," ","c","o","m","p","l","e","x","i","t","y">>,
       <<"o","p","t","i","m","i","z","a","t","i","o","n">>,
       <<"d","a","t","a","b","a","s","e">>,
       <<"a","p","i">>,
       <<"a","s","y","n","c">>,
       <<"p","r","o","m","i","s","e">>,
       <<"c","a","l","l","b","a","c","k">>,
       <<"i","n","h","e","r","i","t","a","n","c","e">>,
       <<"e","n","c","a","p","s","u","l","a","t","i","o","n">>,
       <<"p","o","l","y","m","o","r","p","h","i","s","m">>,
       <<"d","e","s","i","g","n"," ","p","a","t","t","e","r","n">>,
       <<"m","i","c","r","o","s","e","r","v","i","c","e">>,
       <<"c","a","c","h","e">>,
       <<"i","n","d","e","x">>,
       <<"q","u","e","r","y">>,
       <<"t","r","a","n","s","a","c","t","i","o","n">>,
       <<"c","o","n","c","u","r","r","e","n","c","y">>,
       <<"t","h","r","e","a","d">>
  >>

countTechnicalTerms(text) ==
  LET lowerText == toLowerCase(text)
  IN  Cardinality({k \in 1..Len(technicalKeywords) :
                      includes(lowerText, technicalKeywords[k])})

wordCount(answerText) == Len(splitWs(answerText))

\* the bonus of the mid threshold above the bonus of the high threshold
lengthAdjustment_MidAboveHigh(answerText, difficulty) ==
  LET wc == wordCount(answerText)
  IN  IF difficulty = "easy"
        THEN (IF wc >= 30 THEN 10 ELSE IF wc >= 15 THEN 20 ELSE 0)
      ELSE IF difficulty = "medium"
        THEN (IF wc >= 60 THEN 10 ELSE IF wc >= 40 THEN 20 ELSE 0)
      ELSE (IF wc >= 100 THEN 10 ELSE IF wc >= 70 THEN 20 ELSE 0)

lengthAdjustment(answerText, difficulty) ==
  LET wc == wordCount(answerText)
  IN  IF difficulty = "easy"
        THEN (IF wc >= 30 THEN 20 ELSE IF wc >= 15 THEN 10 ELSE 0)
      ELSE IF difficulty = "medium"
        THEN (IF wc >= 60 THEN 20 ELSE IF wc >= 40 THEN 10 ELSE 0)
      ELSE (IF wc >= 100 THEN 20 ELSE IF wc >= 70 THEN 10 ELSE 0)

structureAdjustment(answerText) ==
  IF \/ includes(answerText, <<"\n">>)
     \/ includes(answerText, <<":">>)
     \/ includes(answerText, <<";">>)
     \/ includes(answerText, <<",">>)
  THEN 10 ELSE 0

relevantTerms(answerText, questionText) ==
  LET questionTerms == SelectSeq(splitWs(questionText), LAMBDA w : Len(w) > 3)
  IN  SelectSeq(questionTerms,
        LAMBDA term : includes(toLowerCase(answerText), toLowerCase(term)))

relevanceAdjustment(answerText, questionText) ==
  LET n == Len(relevantTerms(answerText, questionText))
  IN  IF n > 0 THEN Min(n * 5, 15) ELSE 0

\* the sum without the final Math.min / Math.max
calculateScore_NoClamp(answerText, questionText, difficulty) ==
  50 + lengthAdjustment(answerText, difficulty)
     + Min(countTechnicalTerms(answerText) * 3, 15)
     + structureAdjustment(answerText)
     + relevanceAdjustment(answerText, questionText)

calculateScore(answerText, questionText, difficulty) ==
  LET score == 50 + lengthAdjustment(answerText, difficulty)
                  + Min(countTechnicalTerms(answerText) * 3, 15)
                  + structureAdjustment(answerText)
                  + relevanceAdjustment(answerText, questionText)
  IN  Min(Max(score, 0), 100)

\* the feedback is the band sentence, followed without a separator by the
\* short-answer sentence; a sequence of the sentences stands for the string
generateFeedback_NoAddendum(answerText, questionText, score, category, difficulty) ==
  IF score >= 80 THEN <<"Excellent answer!", category>>
  ELSE IF score >= 60 THEN <<"Good response!">>
  ELSE IF score >= 40 THEN <<"Your answer covers the basics but could be more detailed.">>
  ELSE <<"Your answer needs improvement.">>

generateFeedback(answerText, questionText, score, category, difficulty) ==
  LET band ==
        IF score >= 80 THEN <<"Excellent answer!", category>>
        ELSE IF score >= 60 THEN <<"Good response!">>
        ELSE IF score >= 40 THEN <<"Your answer covers the basics but could be more detailed.">>
        ELSE <<"Your answer needs improvement.">>
  IN  IF wordCount(answerText) < 20 /\ difficulty # "easy"
        THEN band \o <<"Consider providing more details in your answer.">>
        ELSE band

\* ------------------------------------------------------------- objects
Has(o, k) == k \in DOMAIN o

\* object spread { ...a, ...b }: the keys of both, b's value where both have one
Spread(a, b) ==
  [k \in (DOMAIN a) \cup (DOMAIN b) |-> IF k \in DOMAIN b THEN b[k] ELSE a[k]]

\* the object o restricted to the keys ks that it has
Pick(o, ks) == [k \in (DOMAIN o) \cap ks |-> o[k]]

\* ---------------------------------------------------------------- state
VARIABLES
  answers,   \* MemAnswerStorage.answers: the Map's entries in insertion order
  now,       \* the wall clock read by new Date()
  routes,    \* how many times the three answer routes have been registered
  subs,      \* the invocations of the submit handler that passed validation
  last       \* the last call or request handled in one step, and its outcome

vars == <<answers, now, routes, subs, last>>

\* The identifiers: randomUUID returns a value no earlier call returned.  The
\* values are interchangeable, so the calls take them in the order 1, 2, ...
randomUUID(store) == Len(store) + 1

\* the identifiers a caller can ask for: those of the records, and one that
\* no call of randomUUID has returned
KnownIds(store) == 1..(Len(store) + 1)

\* Map.prototype.has / get / set / values
MapHas(m, key) == \E i \in 1..Len(m) : m[i].key = key
MapGet(m, key) == m[CHOOSE i \in 1..Len(m) : m[i].key = key].value
MapSet(m, key, value) ==
  IF MapHas(m, key)
    THEN [i \in 1..Len(m) |-> IF m[i].key = key
                                THEN [key |-> key, value |-> value] ELSE m[i]]
    ELSE Append(m, [key |-> key, value |-> value])
MapValues(m) == [i \in 1..Len(m) |-> m[i].value]
MapKeys(m) == {m[i].key : i \in 1..Len(m)}

\* --------------------------------------------------------- answer store
saveAnswer(store, answer, id, t) ==
  LET newAnswer == Spread(answer, [id |-> id, submittedAt |-> t])
  IN  [answers |-> MapSet(store, id, newAnswer), ret |-> newAnswer]

\* updateAnswerEvaluation without the evaluation timestamp
updateAnswerEvaluation_NoTimestamp(store, answerId, evaluation, t) ==
  IF ~MapHas(store, answerId)
    THEN [answers |-> store, threw |-> TRUE]
    ELSE LET updated == Spread(MapGet(store, answerId),
                          [feedback |-> evaluation.feedback,
                           score |-> evaluation.score,
                           evaluationStatus |-> "completed"])
         IN  [answers |-> MapSet(store, answerId, updated),
              threw |-> FALSE, ret |-> updated]

\* updateAnswerEvaluation that stamps the whole record anew
updateAnswerEvaluation_Restamp(store, answerId, evaluation, t) ==
  IF ~MapHas(store, answerId)
    THEN [answers |-> store, threw |-> TRUE]
    ELSE LET updated == Spread(MapGet(store, answerId),
                          [feedback |-> evaluation.feedback,
                           score |-> evaluation.score,
                           evaluationStatus |-> "completed",
                           submittedAt |-> t,
                           evaluatedAt |-> t])
         IN  [answers |-> MapSet(store, answerId, updated),
              threw |-> FALSE, ret |-> updated]

\* updateAnswerEvaluation that leaves the status as it was
updateAnswerEvaluation_KeepStatus(store, answerId, evaluation, t) ==
  IF ~MapHas(store, answerId)
    THEN [answers |-> store, threw |-> TRUE]
    ELSE LET updated == Spread(MapGet(store, answerId),
                          [feedback |-> evaluation.feedback,
                           score |-> evaluation.score,
                           evaluatedAt |-> t])
         IN  [answers |-> MapSet(store, answerId, updated),
              threw |-> FALSE, ret |-> updated]

\* updateAnswerEvaluation without the lookup's check: Map.set on any key
updateAnswerEvaluation_Upsert(store, answerId, evaluation, t) ==
  LET answer == IF MapHas(store, answerId) THEN MapGet(store, answerId)
                ELSE [id |-> answerId]
      updated == Spread(answer,
                   [feedback |-> evaluation.feedback,
                    score |-> evaluation.score,
                    evaluationStatus |-> "completed",
                    evaluatedAt |-> t])
  IN  [answers |-> MapSet(store, answerId, updated),
       threw |-> FALSE, ret |-> updated]

\* updateAnswerEvaluation recording the status error
updateAnswerEvaluation_StatusError(store, answerId, evaluation, t) ==
  IF ~MapHas(store, answerId)
    THEN [answers |-> store, threw |-> TRUE]
    ELSE LET answer == MapGet(store, answerId)
             updated == Spread(answer,
                          [feedback |-> evaluation.feedback,
                           score |-> evaluation.score,
                           evaluationStatus |-> "error",
                           evaluatedAt |-> t])
         IN  [answers |-> MapSet(store, answerId, updated),
              threw |-> FALSE, ret |-> updated]

\* updateAnswerEvaluation building the record anew from a few of its fields
updateAnswerEvaluation_Rebuild(store, answerId, evaluation, t) ==
  IF ~MapHas(store, answerId)
    THEN [answers |-> store, threw |-> TRUE]
    ELSE LET answer == MapGet(store, answerId)
             updated == Spread(Pick(answer, {"id", "interviewId", "questionId",
                                             "userId", "submittedAt"}),
                          [feedback |-> evaluation.feedback,
                           score |-> evaluation.score,
                           evaluationStatus |-> "completed",
                           evaluatedAt |-> t])
         IN  [answers |-> MapSet(store, answerId, updated),
              threw |-> FALSE, ret |-> updated]

updateAnswerEvaluation(store, answerId, evaluation, t) ==
  IF ~MapHas(store, answerId)
    THEN [answers |-> store, threw |-> TRUE]
    ELSE LET answer == MapGet(store, answerId)
             updated == Spread(answer,
                          [feedback |-> evaluation.feedback,
                           score |-> evaluation.score,
                           evaluationStatus |-> "completed",
                           evaluatedAt |-> t])
         IN  [answers |-> MapSet(store, answerId, updated),
              threw |-> FALSE, ret |-> updated]

getAnswersByInterview(store, interviewId) ==
  SelectSeq(MapValues(store), LAMBDA a : a.interviewId = interviewId)

\* the record, or the empty sequence for undefined
getAnswer(store, answerId) ==
  IF MapHas(store, answerId) THEN <<MapGet(store, answerId)>> ELSE <<>>

Init ==
  /\ answers = <<>>
  /\ now = 0
  /\ routes = 0
  /\ subs = <<>>
  /\ last = [op |-> "none"]

\* time passes
Tick ==
  /\ now < MaxTime
  /\ now' = now + 1
  /\ UNCHANGED <<answers, routes, subs, last>>

\* ------------------------------------------- the store used on its own
\* what a caller of IAnswerStorage can pass to saveAnswer
StoreInputs ==
  {[interviewId |-> iv, questionId |-> "q1", userId |-> u,
    answerText |-> <<"o", "k">>, evaluationStatus |-> "pending"] :
      iv \in {"i2"}, u \in {"u1"}}
  \cup
  {[interviewId |-> "i1", questionId |-> "q1", userId |-> "u1",
    answerText |-> <<"o", "k">>, evaluationStatus |-> "pending",
    confidence |-> 2 * 4]}

StoreEvaluations ==
  {[score |-> sc, feedback |-> <<"Good response!">>] : sc \in {60, 75}}

StoreSave ==
  \E input \in StoreInputs :
    LET r == saveAnswer(answers, input, randomUUID(answers), now)
    IN  /\ Len(answers) < MaxStore
        /\ answers' = r.answers
        /\ last' = [op |-> "saveAnswer", threw |-> FALSE]
        /\ UNCHANGED <<now, routes, subs>>

StoreUpdate ==
  \E id \in KnownIds(answers), ev \in StoreEvaluations :
    LET r == updateAnswerEvaluation(answers, id, ev, now)
    IN  /\ answers' = r.answers
        /\ last' = [op |-> "updateAnswerEvaluation", answerId |-> id,
                    evaluation |-> ev, threw |-> r.threw]
        /\ UNCHANGED <<now, routes, subs>>

StoreGetByInterview ==
  \E iv \in {"i1", "i2", "i9"} :
    /\ last' = [op |-> "getAnswersByInterview", interviewId |-> iv,
                threw |-> FALSE]
    /\ UNCHANGED <<answers, now, routes, subs>>

StoreGet ==
  \E id \in KnownIds(answers) :
    /\ last' = [op |-> "getAnswer", answerId |-> id, threw |-> FALSE]
    /\ UNCHANGED <<answers, now, routes, subs>>

StoreNext == StoreSave \/ StoreUpdate \/ StoreGetByInterview \/ StoreGet \/ Tick

StoreSpec == Init /\ [][StoreNext]_vars

\* ------------------------------------------------- external collaborators
Users == {"u1", "u2"}

\* what the Authorization header carries: nothing, a token jwt.verify rejects,
\* or a token issued to a user
Auths == {"none", "bad"} \cup Users

\* strings that are well-formed UUIDs (any other string is not)
Uuids == {"i1", "i9", "q1", "q9"}

\* the interviews of the external storage: i1 belongs to u1, i9 does not exist
Interviews == {[id |-> "i1", userId |-> "u1"]}

\* the questions of the external storage: q9 does not exist
QuestionText == <<"W", "h", "a", "t", " ", "i", "s", " ", "a", "n", " ", "A", "P", "I">>

questions ==
  <<[id |-> "q1", text |-> QuestionText, category |-> "DSA", difficulty |-> "hard"]>>

\* storage.getInterview: the interview or the empty sequence for undefined
getInterview(id) ==
  IF \E iv \in Interviews : iv.id = id
    THEN <<CHOOSE iv \in Interviews : iv.id = id>> ELSE <<>>

\* find with a predicate that every question satisfies
findQuestion_Any(questionId) ==
  IF Len(questions) > 0 THEN <<questions[1]>> ELSE <<>>

\* storage.questions.find((q) => q.id === questionId)
findQuestion(questionId) ==
  IF \E k \in 1..Len(questions) : questions[k].id = questionId
    THEN <<questions[CHOOSE k \in 1..Len(questions) :
              /\ questions[k].id = questionId
              /\ \A j \in 1..(k - 1) : questions[j].id # questionId]>>
    ELSE <<>>

\* --------------------------------------------------------- the response
\* res: what has been written to the client, in order
NewRes == [headersSent |-> FALSE, sent |-> <<>>]

\* json that writes whether or not the headers have been sent
resJson_WriteAgain(res, status, body) ==
  [res |-> [headersSent |-> TRUE,
            sent |-> Append(res.sent, [status |-> status, body |-> body])],
   threw |-> FALSE]

\* json that writes nothing
resJson_Lost(res, status, body) == [res |-> res, threw |-> FALSE]

\* res.status(status).json(body): throws once the headers have been sent
resJson(res, status, body) ==
  IF res.headersSent
    THEN [res |-> res, threw |-> TRUE]
    ELSE [res |-> [headersSent |-> TRUE,
                   sent |-> Append(res.sent, [status |-> status, body |-> body])],
          threw |-> FALSE]

authenticateToken(auth) ==
  IF auth = "none" THEN [ok |-> FALSE, status |-> 401]
  ELSE IF auth \notin Users THEN [ok |-> FALSE, status |-> 403]
  ELSE [ok |-> TRUE, user |-> [id |-> auth]]

\* ----------------------------------------------------------- validation
\* A JSON number is held in halves, so that 2.5 is 5 and 3 is 6.
IsInteger(x) == x % 2 = 0

\* the issues of submitAnswerSchema.parse, in the order of the schema's keys
SubmitIssues(body) ==
  (IF ~Has(body, "interviewId") THEN <<"Required">>
   ELSE IF body.interviewId \notin Uuids THEN <<"Invalid uuid">> ELSE <<>>)
  \o
  (IF ~Has(body, "questionId") THEN <<"Required">>
   ELSE IF body.questionId \notin Uuids THEN <<"Invalid uuid">> ELSE <<>>)
  \o
  (IF ~Has(body, "answerText") THEN <<"Required">>
   ELSE IF Len(body.answerText) < 1 THEN <<"Answer cannot be empty">> ELSE <<>>)
  \o
  (IF ~Has(body, "confidence") THEN <<>>
   ELSE (IF ~IsInteger(body.confidence)
           THEN <<"Expected integer, received float">> ELSE <<>>)
        \o (IF body.confidence < 2 * 1
              THEN <<"Number must be greater than or equal to 1">> ELSE <<>>)
        \o (IF body.confidence > 2 * 5
              THEN <<"Number must be less than or equal to 5">> ELSE <<>>))

\* parse of a schema with passthrough(): unknown keys kept
submitAnswerSchemaParse_Passthrough(body) ==
  IF SubmitIssues(body) # <<>>
    THEN [success |-> FALSE, errors |-> SubmitIssues(body)]
    ELSE [success |-> TRUE, data |-> body]

\* parse of a schema that checks the presence of the keys only
submitAnswerSchemaParse_Lax(body) ==
  IF ~({"interviewId", "questionId", "answerText"} \subseteq DOMAIN body)
    THEN [success |-> FALSE, errors |-> <<"Required">>]
    ELSE [success |-> TRUE,
          data |-> Pick(body, {"interviewId", "questionId", "answerText", "confidence"})]

\* submitAnswerSchema.parse: the keys of the schema, unknown keys stripped
submitAnswerSchemaParse(body) ==
  IF SubmitIssues(body) # <<>>
    THEN [success |-> FALSE, errors |-> SubmitIssues(body)]
    ELSE [success |-> TRUE,
          data |-> Pick(body, {"interviewId", "questionId", "answerText", "confidence"})]

\* ------------------------------------------------------------ evaluator
totalSteps == 5

\* the fields of the evaluation that the store reads
evaluateAnswer(answerText, questionText, difficulty, category) ==
  LET score == calculateScore(answerText, questionText, difficulty)
  IN  [score |-> score,
       feedback |-> generateFeedback(answerText, questionText, score,
                                     category, difficulty)]

\* --------------------------------------------- the evaluator on its own
Difficulties == {"easy", "medium", "hard"}

\* the text of n >= 1 copies of the word w, one space between them
Repeat(n, w) ==
  [i \in 1..(n * (Len(w) + 1) - 1) |->
     IF i % (Len(w) + 1) = 0 THEN " " ELSE w[i % (Len(w) + 1)]]

\* the word counts next to the thresholds of the length adjustment
WordCounts ==
  {n \in 1..MaxWords :
     \E t \in {2, 15, 30, 40, 60, 70, 100, MaxWords} : n \in {t - 1, t}}

\* how an answer begins: a plain word, a word with a technical term and a
\* comma, or five technical terms and a comma
Openers ==
  {<<"w">>,
   <<"a", "p", "i", ",">>,
   <<"c","a","c","h","e"," ","i","n","d","e","x"," ","q","u","e","r","y"," ",
     "t","h","r","e","a","d"," ","a","s","y","n","c",",">>}

\* the answer that begins with opener and goes on with the word "w" up to
\* n words
Text(opener, n) ==
  LET k == wordCount(opener)
  IN  IF n <= k THEN opener ELSE opener \o <<" ">> \o Repeat(n - k, <<"w">>)

DontKnowText == <<"I", " ", "d", "o", "n", "'", "t", " ", "k", "n", "o", "w", ".">>

CacheQuestionText ==
  <<"E","x","p","l","a","i","n"," ","c","a","c","h","e"," ","i","n","d","e","x">>

QuicksortQuestionText ==
  <<"E","x","p","l","a","i","n"," ","t","i","m","e"," ",
    "c","o","m","p","l","e","x","i","t","y"," ","o","f"," ",
    "q","u","i","c","k","s","o","r","t">>

EvalQuestions == {QuestionText, CacheQuestionText, QuicksortQuestionText}

EvalAnswers ==
  {Text(o, n) : o \in Openers, n \in WordCounts} \cup {DontKnowText, <<>>}

\* what the evaluator makes of one answer
Evaluated(answerText, questionText, difficulty) ==
  LET e == evaluateAnswer(answerText, questionText, difficulty, "DSA")
  IN  [answerText |-> answerText, wordCount |-> wordCount(answerText),
       score |-> e.score, feedback |-> e.feedback]

\* the calls made of the evaluator: one answer; two answers that differ in
\* the number of words only; an answer without and with white space around it
Paddings == {<<" ">>, <<"\n">>, <<" ", " ">>}

PaddedAnswers ==
  {Text(o, n) : o \in Openers, n \in {1, 14, 29}} \cup {DontKnowText, <<>>}

EvalInputs ==
  {[op |-> "input", call |-> "evaluateAnswer", answerText |-> t,
    questionText |-> q, difficulty |-> d] :
      t \in EvalAnswers, q \in EvalQuestions, d \in Difficulties}
  \cup
  {[op |-> "input", call |-> "longer", opener |-> o, words |-> w,
    questionText |-> CacheQuestionText, difficulty |-> d] :
      o \in Openers, d \in Difficulties,
      w \in {x \in WordCounts \X WordCounts : x[1] <= x[2]}}
  \cup
  {[op |-> "input", call |-> "padded", answerText |-> t, padding |-> pad,
    questionText |-> QuestionText, difficulty |-> d] :
      t \in PaddedAnswers, d \in Difficulties,
      pad \in {x \in (Paddings \cup {<<>>}) \X (Paddings \cup {<<>>}) :
                 x[1] \o x[2] # <<>>}}

EvalInit ==
  /\ answers = <<>>
  /\ now = 0
  /\ routes = 0
  /\ subs = <<>>
  /\ last \in EvalInputs

\* one call of evaluateAnswer
Evaluate ==
  /\ last.op = "input" /\ last.call = "evaluateAnswer"
  /\ last' = [op |-> "evaluateAnswer", questionText |-> last.questionText,
              difficulty |-> last.difficulty,
              result |-> Evaluated(last.answerText, last.questionText,
                                   last.difficulty)]
  /\ UNCHANGED <<answers, now, routes, subs>>

\* two calls on answers that differ in the number of words only
EvaluateLonger ==
  /\ last.op = "input" /\ last.call = "longer"
  /\ last' = [op |-> "longer", questionText |-> last.questionText,
              difficulty |-> last.difficulty,
              lo |-> Evaluated(Text(last.opener, last.words[1]),
                               last.questionText, last.difficulty),
              hi |-> Evaluated(Text(last.opener, last.words[2]),
                               last.questionText, last.difficulty)]
  /\ UNCHANGED <<answers, now, routes, subs>>

\* two calls on an answer and on the same answer with white space around it
EvaluatePadded ==
  /\ last.op = "input" /\ last.call = "padded"
  /\ last' = [op |-> "padded", questionText |-> last.questionText,
              difficulty |-> last.difficulty,
              plain |-> Evaluated(last.answerText, last.questionText,
                                  last.difficulty),
              padded |-> Evaluated(last.padding[1] \o last.answerText
                                     \o last.padding[2],
                                   last.questionText, last.difficulty)]
  /\ UNCHANGED <<answers, now, routes, subs>>

EvalNext == Evaluate \/ EvaluateLonger \/ EvaluatePadded

EvalSpec == EvalInit /\ [][EvalNext]_vars

\* ------------------------------------------------------ request inputs
AnswerText == <<"a", "n", " ", "A", "P", "I", ",", " ", "o", "k">>

BaseBody == [interviewId |-> "i1", questionId |-> "q1", answerText |-> AnswerText]

\* a well-formed body that also carries keys the schema does not know
ExtraBody ==
  Spread(BaseBody, [confidence |-> 2 * 3, userId |-> "u1", score |-> 100,
                    feedback |-> <<"Excellent answer!">>,
                    evaluationStatus |-> "completed", evaluatedAt |-> 0])

\* a well-formed body whose question does not exist
NoQuestionBody == Spread(BaseBody, [questionId |-> "q9"])

ValidBodies == {ExtraBody, NoQuestionBody}

InvalidBodies ==
  {Spread(BaseBody, [answerText |-> <<>>]),
   Spread(BaseBody, [interviewId |-> "17"]),
   Spread(BaseBody, [questionId |-> "q-1"]),
   Spread(BaseBody, [confidence |-> 2 * 0]),
   Spread(BaseBody, [confidence |-> 2 * 6]),
   Spread(BaseBody, [confidence |-> 5]),
   Pick(BaseBody, {"interviewId", "questionId"})}

\* the requests that pass authenticateToken
SubmitRequests ==
  {[auth |-> u, body |-> ExtraBody] : u \in Users}
  \cup {[auth |-> "u1", body |-> b] : b \in {NoQuestionBody} \cup InvalidBodies}

EvaluationRequests(store) ==
  {[auth |-> u, id |-> id] : u \in Users, id \in KnownIds(store)}

InterviewRequests ==
  {[auth |-> u, id |-> "i1", storageThrows |-> FALSE] : u \in Users}
  \cup {[auth |-> "u1", id |-> "i9", storageThrows |-> FALSE],
        [auth |-> "u1", id |-> "i1", storageThrows |-> TRUE]}

\* evaluateAnswer(data.answerText, question.text, question.difficulty,
\* question.category) depends on its arguments only: the results for the
\* answer texts and the questions of the requests above, computed once
evaluations ==
  [t \in {b.answerText : b \in ValidBodies} |->
     [q \in {questions[n].id : n \in 1..Len(questions)} |->
        LET question == findQuestion(q)[1]
        IN  evaluateAnswer(t, question.text, question.difficulty, question.category)]]

\* ------------------------------------------------- authenticateToken
\* The middleware of every route below answers a request without a token, or
\* with a token jwt.verify rejects, and the handler is not called.
Unauthenticated ==
  \E auth \in {"none", "bad"} :
    /\ last' = [op |-> "authenticateToken", status |-> authenticateToken(auth).status]
    /\ UNCHANGED <<answers, now, routes, subs>>

\* ------------------------------------------- POST /api/answers/submit
\* The handler up to its first await: parse, saveAnswer.
SubmitAnswer ==
  \E req \in SubmitRequests :
    LET a == authenticateToken(req.auth)
        p == submitAnswerSchemaParse(req.body)
        r == saveAnswer(answers,
                        Spread(p.data, [userId |-> a.user.id,
                                        evaluationStatus |-> "pending"]),
                        randomUUID(answers), now)
    IN  /\ routes >= 1
        /\ a.ok
        /\ IF ~p.success
             THEN \* catch: a ZodError
                  /\ last' = [op |-> "submit", body |-> req.body,
                              status |-> 400, error |-> p.errors[1]]
                  /\ UNCHANGED <<answers, subs>>
           ELSE /\ Len(subs) < MaxSubs
                /\ answers' = r.answers
                /\ subs' = Append(subs, [data |-> p.data, answer |-> r.ret,
                                         pc |-> "saved", i |-> 0, res |-> NewRes])
                /\ last' = [op |-> "submit", body |-> req.body, status |-> 0]
        /\ UNCHANGED <<now, routes>>

\* catch (error) of the submit handler for an error that is no ZodError:
\* the 500 is written unless the response has been sent; then json throws and
\* the handler's promise rejects
SubmitCatch(sub) ==
  LET w == resJson(sub.res, 500, [error |-> "Failed to submit answer"])
  IN  [sub EXCEPT !.res = w.res,
                  !.pc = IF w.threw THEN "rejected" ELSE "done"]

\* The handler after saveAnswer resolves: the response, then the question
\* lookup; the external storage answers or throws.
SubmitRespond(k) ==
  /\ k \in 1..Len(subs)
  /\ subs[k].pc = "saved"
  /\ LET sub == subs[k]
         w == resJson(sub.res, 200,
                      [answerId |-> sub.answer.id, status |-> "evaluating",
                       message |-> "Your answer is being evaluated..."])
         sent == [sub EXCEPT !.res = w.res]
         question == findQuestion(sub.data.questionId)
     IN  \E storageThrows \in BOOLEAN :
           subs' = [subs EXCEPT ![k] =
             IF w.threw \/ storageThrows THEN SubmitCatch(sent)
             ELSE IF question # <<>>
               THEN \* evaluateAnswer runs to its first timeout
                    Spread([sent EXCEPT !.pc = "evaluating", !.i = 0],
                           [question |-> question[1]])
             ELSE [sent EXCEPT !.pc = "done"]]
  /\ last' = [op |-> "respond", status |-> 0]
  /\ UNCHANGED <<answers, now, routes>>

\* A timeout of evaluateAnswer fires: the next round of the loop, or after the
\* last round the evaluation and the store's update.
EvaluationTimeout(k) ==
  /\ k \in 1..Len(subs)
  /\ subs[k].pc = "evaluating"
  /\ LET sub == subs[k]
         evaluation == evaluations[sub.data.answerText][sub.question.id]
         u == updateAnswerEvaluation(answers, sub.answer.id, evaluation, now)
     IN  IF sub.i + 1 < totalSteps
           THEN /\ subs' = [subs EXCEPT ![k].i = sub.i + 1]
                /\ UNCHANGED answers
         ELSE IF u.threw
           THEN /\ subs' = [subs EXCEPT ![k] = SubmitCatch(sub)]
                /\ UNCHANGED answers
         ELSE /\ subs' = [subs EXCEPT ![k].pc = "done"]
              /\ answers' = u.answers
  /\ last' = [op |-> "timeout", status |-> 0]
  /\ UNCHANGED <<now, routes>>

\* ------------------------------------- GET /api/answers/:id/evaluation
getEvaluationResponse(store, auth, id) ==
  LET a == authenticateToken(auth)
      answer == getAnswer(store, id)
  IN  IF answer = <<>> THEN [status |-> 404]
      ELSE IF answer[1].userId # a.user.id THEN [status |-> 403]
      ELSE [status |-> 200,
            body |-> Spread([answerId |-> answer[1].id,
                             status |-> answer[1].evaluationStatus],
                            Pick(answer[1], {"score", "feedback", "evaluatedAt"}))]

GetEvaluation ==
  \E req \in EvaluationRequests(answers) :
    /\ routes >= 1
    /\ last' = Spread([op |-> "evaluation", auth |-> req.auth, id |-> req.id],
                      getEvaluationResponse(answers, req.auth, req.id))
    /\ UNCHANGED <<answers, now, routes, subs>>

\* ------------------------------ GET /api/interviews/:interviewId/answers
getInterviewAnswersResponse(store, auth, interviewId, storageThrows) ==
  LET a == authenticateToken(auth)
      interview == getInterview(interviewId)
  IN  IF storageThrows THEN [status |-> 500]
      ELSE IF interview = <<>> THEN [status |-> 404]
      ELSE IF interview[1].userId # a.user.id THEN [status |-> 403]
      ELSE [status |-> 200, body |-> getAnswersByInterview(store, interviewId)]

GetInterviewAnswers ==
  \E req \in InterviewRequests :
    /\ routes >= 1
    /\ last' = Spread([op |-> "answers", auth |-> req.auth, interviewId |-> req.id],
                      getInterviewAnswersResponse(answers, req.auth, req.id,
                                                  req.storageThrows))
    /\ UNCHANGED <<answers, now, routes, subs>>

\* ---------------------------------- GET /api/interviews/:id/feedback
\* The three answer routes are registered by the catch block of this handler.
GetFeedback ==
  \E req \in InterviewRequests :
    LET a == authenticateToken(req.auth)
        interview == getInterview(req.id)
        status == IF req.storageThrows THEN 500
                  ELSE IF interview = <<>> THEN 404
                  ELSE IF interview[1].userId # a.user.id THEN 403
                  ELSE 200
    IN  /\ status = 500 => routes < MaxRoutes
        /\ routes' = IF status = 500 THEN routes + 1 ELSE routes
        /\ last' = [op |-> "feedback", status |-> status]
        /\ UNCHANGED <<answers, now, subs>>

Next ==
  \/ SubmitAnswer
  \/ \E k \in 1..MaxSubs : SubmitRespond(k)
  \/ \E k \in 1..MaxSubs : EvaluationTimeout(k)
  \/ GetEvaluation
  \/ GetInterviewAnswers
  \/ GetFeedback
  \/ Unauthenticated
  \/ Tick

Spec == Init /\ [][Next]_vars

\* The event loop runs every continuation whose promise has resolved and fires
\* every timeout that was set.
FairSpec ==
  /\ Spec
  /\ \A k \in 1..MaxSubs : WF_vars(SubmitRespond(k)) /\ WF_vars(EvaluationTimeout(k))

\* =============================================================== claims
EvaluationKeys == {"score", "feedback", "evaluatedAt"}

Record(k) == answers[k].value

\* the stored record of the k-th accepted submission
RecordOf(k) == MapGet(answers, subs[k].answer.id)

Pending(a) ==
  /\ Has(a, "evaluationStatus") /\ a.evaluationStatus = "pending"
  /\ DOMAIN a \cap EvaluationKeys = {}

Completed(a) ==
  /\ Has(a, "evaluationStatus") /\ a.evaluationStatus = "completed"
  /\ EvaluationKeys \subseteq DOMAIN a

\* the one success response of a submission
Evaluating(k) ==
  [status |-> 200,
   body |-> [answerId |-> subs[k].answer.id, status |-> "evaluating",
             message |-> "Your answer is being evaluated..."]]

QuestionExists(questionId) == \E j \in 1..Len(questions) : questions[j].id = questionId

\* C1: every stored record, and every record or evaluation a read has
\* returned, has score, feedback and evaluatedAt all absent while it is
\* pending and all present once it is completed; never only some of them.
C1_EvaluationAllOrNothing ==
  /\ \A k \in 1..Len(answers) : Pending(Record(k)) \/ Completed(Record(k))
  /\ (last.op = "evaluation" /\ last.status = 200) =>
       \/ last.body.status = "pending" /\ DOMAIN last.body \cap EvaluationKeys = {}
       \/ last.body.status = "completed" /\ EvaluationKeys \subseteq DOMAIN last.body
  /\ (last.op = "answers" /\ last.status = 200) =>
       \A j \in 1..Len(last.body) : Pending(last.body[j]) \/ Completed(last.body[j])

C1_Witness ==
  /\ \E k \in 1..Len(answers) : Completed(Record(k))
  /\ last.op = "evaluation" /\ last.status = 200 /\ last.body.status = "completed"

\* C2: for every accepted submission the record is stored as pending before
\* the response is written, the response carries the record's identifier and
\* the status "evaluating", and the evaluation is applied to the record only
\* after the response has been written.
C2_StoreThenRespondThenEvaluate ==
  [][\A k \in 1..Len(subs') :
       /\ k > Len(subs) =>
            /\ subs'[k].res.sent = <<>>
            /\ MapHas(answers', subs'[k].answer.id)
            /\ Pending(MapGet(answers', subs'[k].answer.id))
       /\ (k <= Len(subs) /\ subs'[k].res.sent # subs[k].res.sent) =>
            /\ subs[k].res.sent = <<>>
            /\ MapHas(answers, subs[k].answer.id)
            /\ Pending(RecordOf(k))
            /\ subs'[k].res.sent[1] = Evaluating(k)
       /\ (k <= Len(subs) /\ RecordOf(k)' # RecordOf(k)) =>
            subs[k].res.sent = <<Evaluating(k)>>
    ]_vars

C2_Witness ==
  \E k \in 1..Len(subs) :
    /\ subs[k].res.sent = <<Evaluating(k)>>
    /\ Completed(RecordOf(k))

\* C3: an accepted submission is answered by the one success response and by
\* nothing else; when the work after the response fails, no error response
\* reaches the client and the record stays pending.
C3_OneResponseOnly ==
  \A k \in 1..Len(subs) :
    /\ subs[k].pc = "saved" => subs[k].res.sent = <<>>
    /\ subs[k].pc # "saved" => subs[k].res.sent = <<Evaluating(k)>>
    /\ subs[k].pc = "rejected" => Pending(RecordOf(k))

C3_Witness ==
  \E k \in 1..Len(subs) :
    /\ subs[k].pc = "rejected"
    /\ subs[k].res.sent = <<Evaluating(k)>>

\* C4: every answer in a success response of the two read endpoints belongs
\* to the user who asked.
C4_OnlyTheSubmitterReads ==
  /\ (last.op = "evaluation" /\ last.status = 200) =>
       MapGet(answers, last.body.answerId).userId = last.auth
  /\ (last.op = "answers" /\ last.status = 200) =>
       \A j \in 1..Len(last.body) : last.body[j].userId = last.auth

\* C5 as claimed: under any sequence of store operations a record's
\* submittedAt never changes, and its evaluatedAt, once set, never changes.
C5_TimestampsNeverChange ==
  [][\A k \in 1..Len(answers) :
       /\ Record(k)'.submittedAt = Record(k).submittedAt
       /\ Has(Record(k), "evaluatedAt") =>
            /\ Has(Record(k)', "evaluatedAt")
            /\ Record(k)'.evaluatedAt = Record(k).evaluatedAt
    ]_vars

\* C5 as amended: under any sequence of store operations a record's
\* submittedAt never changes, and its evaluatedAt, once set, stays set and
\* changes only by a further updateAnswerEvaluation on the same identifier,
\* which replaces it by the time of that call.
C5_SubmittedAtFixedEvaluatedAtOverwritten ==
  [][\A k \in 1..Len(answers) :
       /\ answers'[k].key = answers[k].key
       /\ Record(k)'.submittedAt = Record(k).submittedAt
       /\ Has(Record(k), "evaluatedAt") =>
            /\ Has(Record(k)', "evaluatedAt")
            /\ Record(k)'.evaluatedAt # Record(k).evaluatedAt =>
                 /\ last'.op = "updateAnswerEvaluation"
                 /\ last'.answerId = answers[k].key
                 /\ Record(k)'.evaluatedAt = now
                 /\ Record(k)'.evaluatedAt > Record(k).evaluatedAt
    ]_vars

C5_Witness ==
  /\ last.op = "updateAnswerEvaluation" /\ ~last.threw
  /\ \E k \in 1..Len(answers) :
       /\ answers[k].key = last.answerId
       /\ Record(k).evaluatedAt = now
       /\ Record(k).submittedAt < now

\* C6: the record that saveAnswer stores and returns for an accepted
\* submission has status pending and no score, feedback or evaluatedAt.
C6_CreatedPending ==
  \A k \in 1..Len(subs) :
    /\ Pending(subs[k].answer)
    /\ subs[k].pc = "saved" => RecordOf(k) = subs[k].answer

C6_Witness ==
  \E k \in 1..Len(subs) :
    /\ subs[k].pc = "saved"
    /\ last.op = "submit" /\ Has(last.body, "score")
    /\ RecordOf(k) = subs[k].answer

\* what submitAnswerSchema asks of a payload
ValidPayload(body) ==
  /\ Has(body, "interviewId") /\ body.interviewId \in Uuids
  /\ Has(body, "questionId") /\ body.questionId \in Uuids
  /\ Has(body, "answerText") /\ body.answerText # <<>>
  /\ Has(body, "confidence") => body.confidence \in {2 * c : c \in 1..5}

\* C7: a submission whose payload fails validation is answered 400 and
\* leaves the store as it was: no record is created, no evaluation started.
C7_InvalidRejected ==
  [][(last'.op = "submit" /\ ~ValidPayload(last'.body)) =>
       /\ last'.status = 400
       /\ answers' = answers
       /\ subs' = subs
    ]_vars

C7_Witness ==
  /\ last.op = "submit" /\ last.status = 400
  /\ Len(answers) > 0

\* C8: the record of an accepted submission whose question does not exist is
\* pending in every state: no evaluation is started or applied, no error
\* status is recorded, and the evaluation endpoint reports pending.
C8_MissingQuestionStaysPending ==
  \A k \in 1..Len(subs) :
    ~QuestionExists(subs[k].data.questionId) =>
      /\ Pending(RecordOf(k))
      /\ subs[k].pc # "evaluating"
      /\ getEvaluationResponse(answers, RecordOf(k).userId, subs[k].answer.id)
           = [status |-> 200,
              body |-> [answerId |-> subs[k].answer.id, status |-> "pending"]]
      /\ (last.op = "evaluation" /\ last.status = 200
            /\ last.id = subs[k].answer.id) => last.body.status = "pending"

C8_Witness ==
  \E k \in 1..Len(subs) :
    /\ ~QuestionExists(subs[k].data.questionId)
    /\ subs[k].pc = "done"
    /\ last.op = "evaluation" /\ last.status = 200 /\ last.id = subs[k].answer.id

\* C9: an accepted submission whose question exists is completed eventually
\* unless the work after the response fails, and a completed record is not
\* updated again: one evaluation update is applied to it.
C9_EventuallyCompletedOnce ==
  /\ \A k \in 1..MaxSubs :
       (k <= Len(subs) /\ QuestionExists(subs[k].data.questionId))
         ~> (k <= Len(subs)
               /\ (Completed(RecordOf(k)) \/ subs[k].pc = "rejected"))
  /\ [][\A k \in 1..Len(subs) :
          /\ RecordOf(k)' # RecordOf(k) =>
               Pending(RecordOf(k)) /\ Completed(RecordOf(k)')
          /\ subs[k].pc = "done" => RecordOf(k)' = RecordOf(k)
       ]_vars

C9_Witness ==
  \E k \in 1..Len(subs) :
    /\ QuestionExists(subs[k].data.questionId)
    /\ subs[k].pc = "done"
    /\ Completed(RecordOf(k))

\* C10: updateAnswerEvaluation on an identifier that saveAnswer never
\* returned throws and leaves the store as it was.
C10_UnknownIdNotFound ==
  [][(last'.op = "updateAnswerEvaluation" /\ ~MapHas(answers, last'.answerId)) =>
       /\ last'.threw
       /\ answers' = answers
    ]_vars

C10_Witness ==
  /\ last.op = "updateAnswerEvaluation" /\ last.threw
  /\ ~MapHas(answers, last.answerId)
  /\ Len(answers) > 0

\* the results of the evaluator calls of a step
Results ==
  IF last.op = "evaluateAnswer" THEN {last.result}
  ELSE IF last.op = "longer" THEN {last.lo, last.hi}
  ELSE IF last.op = "padded" THEN {last.plain, last.padded}
  ELSE {}

\* the sum that calculateScore clamps
Unclamped(answerText, questionText, difficulty) ==
  50 + lengthAdjustment(answerText, difficulty)
     + Min(countTechnicalTerms(answerText) * 3, 15)
     + structureAdjustment(answerText)
     + relevanceAdjustment(answerText, questionText)

\* C11: for every answer text, question text and difficulty the score the
\* evaluator returns is an integer from 0 to 100.
C11_ScoreInRange ==
  \A r \in Results : r.score \in 0..100

C11_Witness ==
  /\ last.op = "evaluateAnswer"
  /\ last.result.score = 100
  /\ Unclamped(last.result.answerText, last.questionText, last.difficulty) > 100

\* an answer that earns no adjustment
NoAdjustment(answerText, questionText, difficulty) ==
  /\ lengthAdjustment(answerText, difficulty) = 0
  /\ countTechnicalTerms(answerText) = 0
  /\ structureAdjustment(answerText) = 0
  /\ relevanceAdjustment(answerText, questionText) = 0

ShortAnswerAddendum(r, difficulty) ==
  IF r.wordCount < 20 /\ difficulty # "easy"
    THEN <<"Consider providing more details in your answer.">>
    ELSE <<>>

\* C12 as claimed: an answer that earns no adjustment scores 50 and gets the
\* "needs improvement" sentence, followed by the short-answer sentence when
\* it has fewer than 20 words and the difficulty is not easy.
C12_NoAdjustmentNeedsImprovement ==
  (last.op = "evaluateAnswer"
     /\ NoAdjustment(last.result.answerText, last.questionText, last.difficulty))
  => /\ last.result.score = 50
     /\ last.result.feedback =
          <<"Your answer needs improvement.">>
            \o ShortAnswerAddendum(last.result, last.difficulty)

\* C12 as amended: an answer that earns no adjustment scores 50 and gets the
\* "covers the basics but could be more detailed" sentence, followed by the
\* short-answer sentence when it has fewer than 20 words and the difficulty
\* is not easy.
C12_NoAdjustmentCoversTheBasics ==
  (last.op = "evaluateAnswer"
     /\ NoAdjustment(last.result.answerText, last.questionText, last.difficulty))
  => /\ last.result.score = 50
     /\ last.result.feedback =
          <<"Your answer covers the basics but could be more detailed.">>
            \o ShortAnswerAddendum(last.result, last.difficulty)

C12_Witness ==
  /\ last.op = "evaluateAnswer"
  /\ last.result.answerText = DontKnowText
  /\ last.questionText = QuicksortQuestionText
  /\ last.difficulty = "hard"
  /\ NoAdjustment(DontKnowText, QuicksortQuestionText, "hard")
  /\ last.result.wordCount = 3
  /\ last.result.feedback =
       <<"Your answer covers the basics but could be more detailed.",
         "Consider providing more details in your answer.">>

\* C13: for each difficulty, of two answers that differ in the number of
\* words only, the one with more words does not score less.
C13_ScoreMonotoneInWordCount ==
  last.op = "longer" =>
    (last.lo.wordCount <= last.hi.wordCount => last.lo.score <= last.hi.score)

C13_Witness ==
  /\ last.op = "longer" /\ last.difficulty = "hard"
  /\ last.lo.wordCount = 69 /\ last.hi.wordCount = 100
  /\ last.hi.score = last.lo.score + 20

\* C16: white space before or after an answer changes neither its word
\* count nor its score, and the empty answer has word count 1.
C16_SurroundingWhitespaceIgnored ==
  last.op = "padded" =>
    /\ last.padded.wordCount = last.plain.wordCount
    /\ last.padded.score = last.plain.score
    /\ last.plain.answerText = <<>> => last.plain.wordCount = 1

\* C14: no stored record has status error: the submission flow and the store
\* assign pending (at creation) and completed (by the evaluation update) only.
C14_NoErrorStatus ==
  /\ \A k \in 1..Len(answers) :
       Record(k).evaluationStatus \in {"pending", "completed"}
  /\ \A k \in 1..Len(subs) :
       /\ subs[k].answer.evaluationStatus = "pending"
       /\ subs[k].pc = "rejected" => Pending(RecordOf(k))

\* the work after the response has failed, and the record is pending still
C14_Witness ==
  \E k \in 1..Len(subs) :
    /\ subs[k].pc = "rejected"
    /\ subs[k].res.sent = <<Evaluating(k)>>
    /\ RecordOf(k).evaluationStatus = "pending"

\* C15: from the moment registerRoutes has returned, before any request and
\* whatever requests were served since, each of the three answer routes is
\* registered exactly once.
C15_AnswerRoutesRegisteredOnce == routes = 1

\* the fields an evaluation update may write
UpdatedKeys == EvaluationKeys \cup {"evaluationStatus"}

\* C17: a successful updateAnswerEvaluation on an identifier changes the
\* feedback, score, status and evaluatedAt of that record at most: its other
\* fields and every other record are as before, and the identifiers stored
\* are the same.
C17_UpdateTouchesOneRecord ==
  [][(last'.op = "updateAnswerEvaluation" /\ ~last'.threw) =>
       /\ MapKeys(answers') = MapKeys(answers)
       /\ \A k \in 1..Len(answers) :
            IF answers[k].key = last'.answerId
              THEN /\ DOMAIN Record(k)' = DOMAIN Record(k) \cup UpdatedKeys
                   /\ Pick(Record(k)', DOMAIN Record(k) \ UpdatedKeys)
                        = Pick(Record(k), DOMAIN Record(k) \ UpdatedKeys)
              ELSE answers'[k] = answers[k]
    ]_vars

C17_Witness ==
  /\ last.op = "updateAnswerEvaluation" /\ ~last.threw
  /\ Len(answers) = 2
  /\ \E k, j \in 1..Len(answers) :
       /\ answers[k].key = last.answerId
       /\ Completed(Record(k))
       /\ Has(Record(k), "confidence")
       /\ Record(k).submittedAt < Record(k).evaluatedAt
       /\ j # k /\ Pending(Record(j))

====
